---- MODULE Spec2Model ----
(***************************************************************************)
(* LocalRemapper (cli/src/cmd/forge/remapper_local.rs): flattening of a    *)
(* bundle of sources into a temp directory, with renaming of sources whose *)
(* file stem was already used by a source of different content, and the    *)
(* rewriting of import statements.                                         *)
(*                                                                         *)
(* A path is a record [dir, stem, ext]; a content is a sequence of         *)
(* segments, each a piece of plain text or one match of the import regex   *)
(* of update_content, split into its parts.  The file system is the set of *)
(* existing output directories and the map from output paths to the bytes  *)
(* they hold.                                                              *)
(***************************************************************************)
EXTENDS Integers, Sequences, FiniteSets, TLC

\* ------------------------------------------------------------------ bounds
\* longest bundle (standard_json.sources) handed to one call
MaxSources == 3
\* calls of apply_local_remapping on one LocalRemapper
MaxCalls == 2

\* ------------------------------------------------------------------ values
None == "None"
\* what a file holds after File::create succeeded and write_all failed:
\* not all of the bytes
Partial == << [kind |-> "truncated", text |-> "", ws |-> "", items |-> "",
               q1 |-> "", path |-> "", q2 |-> ""] >>

\* temp_directory as given to LocalRemapper::new: a relative directory name
TempDirectory == "out"

MkPath(d, s, e) == [dir |-> d, stem |-> s, ext |-> e]

\* the source paths of the model; the last one ("/p/..") has no file stem
SourcePaths ==
    { MkPath("/p", "A", "sol"), MkPath("/p", "A", "vy"),
      MkPath("/p", "A_1", "sol"), MkPath("/q", "A", "sol"),
      MkPath("/p", None, "") }

\* a piece of text that holds no match of the import regex
Txt(s) ==
    [kind |-> "text", text |-> s,
     ws |-> "", items |-> "", q1 |-> "", path |-> "", q2 |-> ""]

\* a match of the import regex: import<ws><items><q1><path><q2>;
Imp(w, it, a, p, b) ==
    [kind |-> "import", text |-> "",
     ws |-> w, items |-> it, q1 |-> a, path |-> p, q2 |-> b]

\* the source contents of the model: two plain ones, and one with two
\* imports, the first single-quoted after two spaces, the second a named
\* import in the form that update_content itself produces
Contents ==
    { << Txt("x") >>,
      << Txt("y") >>,
      << Imp("  ", "", "'", "./A.vy", "'"),
         Imp(" ", "{X} from ", "\"", "./A.vy", "\""), Txt("z") >> }

Source(p, c) == [path |-> p, content |-> c]

RECURSIVE SeqsUpTo(_)
\* the bundles of at most n sources, no path twice (the sources are a map
\* keyed by path)
SeqsUpTo(n) ==
    IF n = 0 THEN { << >> }
    ELSE LET shorter == SeqsUpTo(n - 1)
         IN  shorter \cup
             { Append(b, Source(p, c)) :
                 b \in { s \in shorter : Len(s) = n - 1 },
                 p \in SourcePaths, c \in Contents }

DistinctPaths(b) == \A j, k \in 1..Len(b) : j # k => b[j].path # b[k].path

Bundles(n) == { b \in SeqsUpTo(n) : DistinctPaths(b) }

\* ------------------------------------------------------------- std::path
\* file_stem with an empty name where the path gives none
file_stem_or_empty(p) == IF p.stem = None THEN "" ELSE p.stem

\* Path::file_stem followed by OsStr::to_str: None stands for both a path
\* without a file stem and a stem that is not UTF-8
file_stem(p) == p.stem

\* Path::parent
parent(p) == p.dir

\* Path::join of a directory and a relative name
join(d, name) == d \o "/" \o name

\* format!("{}", counter) of a u32
Decimal(n) == ToString(n)


\* the hash maps of the model are functions; HashMap::insert
Put(m, k, v) == [x \in DOMAIN m \cup {k} |-> IF x = k THEN v ELSE m[x]]

EmptyMap == [x \in {} |-> None]

\* --------------------------------------------------------------- state
VARIABLES
    contract_name_count,    \* HashMap<String, u32>
    contract_content_map,   \* HashMap<String, String>
    changed_filenames,      \* HashMap<PathBuf, (PathBuf, String)>
    dirs,                   \* the output directories that exist
    fs,                     \* output path -> bytes of the file
    standard_json,          \* the sources of the running (or last) call
    main_contract_path,     \* the main contract path of that call
    before,                 \* history: the bundle of the call before, when
                            \* it returned Ok, and the names it gave
    calls,                  \* calls of apply_local_remapping so far
    submitted,              \* sources handed over in the calls so far
    pc,                     \* position in apply_local_remapping
    i,                      \* index of the loop's current entry
    new_contract_name,      \* locals of the loop body
    new_path,
    new_content,
    failed,                 \* a step of this call returned an error
    log,                    \* history of this call: one record per entry
                            \* that check_and_rename_contract gave a name
    writes                  \* history of this call: one record per file
                            \* that File::create opened

vars == << contract_name_count, contract_content_map, changed_filenames,
           dirs, fs, standard_json, main_contract_path, before,
                    calls, submitted, pc, i,
           new_contract_name, new_path, new_content, failed, log, writes >>

remapper == << contract_name_count, contract_content_map, changed_filenames >>
disk == << dirs, fs >>

\* ------------------------------------------------ check_and_rename_contract
\* format!("{}_{}", contract_name, counter)
format_name(contract_name, counter) == contract_name \o "_" \o Decimal(counter)

\* format!("{}.sol", new_contract_name)
format_filename(name) == name \o ".sol"

\* contract_name_count.entry(name).or_insert(0), then *counter += 1
next_counter(count, contract_name) ==
    (IF contract_name \in DOMAIN count THEN count[contract_name] ELSE 0) + 1

\* name_case with the comparison of the contents left out
name_case_uncompared(cmap, contract_name, source_content) ==
    IF contract_name \in DOMAIN cmap THEN "differs" ELSE "new"

\* the branch taken for a name: "new" (not in contract_content_map),
\* "same" (stored content equal), "differs" (stored content differs)
name_case(cmap, contract_name, source_content) ==
    IF contract_name \in DOMAIN cmap
    THEN IF cmap[contract_name] # source_content THEN "differs" ELSE "same"
    ELSE "new"

\* count_after with one counter for all names, kept under the empty name
count_after_shared_counter(count, contract_name, counter) ==
    Put(count, "", counter)

\* lines 86-87: contract_name_count after *counter += 1 on the entry of
\* contract_name
count_after(count, contract_name, counter) ==
    Put(count, contract_name, counter)

\* content_map_after with the content stored in every branch
content_map_after_last_seen(cmap, branch, contract_name, source_content) ==
    Put(cmap, contract_name, source_content)

\* lines 83, 95-98: contract_content_map after the if-let: the content is
\* inserted in the else branch only, where the name has no entry yet
content_map_after(cmap, branch, contract_name, source_content) ==
    IF branch = "new" THEN Put(cmap, contract_name, source_content) ELSE cmap

\* lines 83-101: the name given to a source of base name contract_name,
\* and the maps left
rename_result(count, cmap, contract_name, source_content) ==
    LET branch == name_case(cmap, contract_name, source_content)
        counter == next_counter(count, contract_name)
        new_name == format_name(contract_name, counter)
    IN  IF branch = "differs"
        THEN [res |-> "Ok", name |-> new_name,
              renamed |-> << join(TempDirectory, format_filename(new_name)),
                             format_filename(new_name) >>,
              count |-> count_after(count, contract_name, counter),
              cmap |-> content_map_after(cmap, branch, contract_name,
                                         source_content)]
        ELSE [res |-> "Ok", name |-> contract_name, renamed |-> None,
              count |-> count,
              cmap |-> content_map_after(cmap, branch, contract_name,
                                         source_content)]

\* the result when the extraction of the contract name fails (lines 75-80)
no_contract_name(count, cmap) ==
    [res |-> "Err", name |-> None, renamed |-> None,
     count |-> count, cmap |-> cmap]

\* check_and_rename_contract with the main contract never renamed
check_and_rename_contract_main_exempt(count, cmap, path, source_content, is_main_contract) ==
    LET contract_name == file_stem(path)
        r == rename_result(count, cmap, contract_name, source_content)
    IN  IF contract_name = None THEN no_contract_name(count, cmap)
        ELSE IF is_main_contract
        THEN [res |-> "Ok", name |-> contract_name, renamed |-> None,
              count |-> count, cmap |-> r.cmap]
        ELSE r

\* the result of check_and_rename_contract and the maps it leaves;
\* is_main_contract is a parameter (line 72) that the body never reads
check_and_rename_contract(count, cmap, path, source_content, is_main_contract) ==
    LET contract_name == file_stem(path)
    IN  IF contract_name = None THEN no_contract_name(count, cmap)
        ELSE rename_result(count, cmap, contract_name, source_content)

\* changed_after with every named source recorded
changed_after_recording_all(changed, path, r) ==
    IF r.res = "Ok"
    THEN Put(changed, path, << join(TempDirectory, format_filename(r.name)),
                               format_filename(r.name) >>)
    ELSE changed

\* lines 44-51: changed_filenames after the name of a source was decided.
\* The result of check_and_rename_contract is used as the new name alone,
\* its Option<(PathBuf, String)> is never read, and no line of the file
\* inserts into changed_filenames: the map stays as it is
changed_after(changed, path, r) == changed

\* ------------------------------------------------------------ get_new_path
\* original_dir.join(&self.temp_directory)
new_dir_of(original_path) == join(parent(original_path), TempDirectory)

\* create_dir_all called whether or not the directory exists
create_outcomes_unchecked(new_dir, existing) == {"Ok", "Err"}

\* lines 118-121: create_dir_all is called only when new_dir does not
\* exist, and then succeeds or fails; an existing directory is left alone
create_outcomes(new_dir, existing) ==
    IF new_dir \in existing THEN {"Ok"} ELSE {"Ok", "Err"}

\* new_file_path with the temp directory left out
new_file_path_beside_source(original_path, name) ==
    join(parent(original_path), format_filename(name))

\* new_dir.join(format!("{}.sol", new_contract_name))
new_file_path(original_path, name) ==
    join(new_dir_of(original_path), format_filename(name))

\* ---------------------------------------------------------- update_content
\* the sources that exist on disk, so that canonicalize succeeds on them
OnDisk == { p \in SourcePaths : p.stem # None }

\* the file an import path string names, relative to a directory
ImportTarget(d, s) ==
    CASE s = "./A.vy" -> MkPath(d, "A", "vy")
      [] OTHER -> MkPath(d, s, "")

\* current_contract_dir.join(import_path_str).canonicalize()
\*     .unwrap_or_else(|_| PathBuf::from(import_path_str))
canonical_import_path(current_contract_dir, import_path_str) ==
    LET t == ImportTarget(current_contract_dir, import_path_str)
    IN  IF t \in OnDisk THEN t ELSE MkPath("", import_path_str, "")

\* the replacement the closure gives for one match of the regex
rewrite_import(changed, current_contract_dir, m) ==
    LET c == canonical_import_path(current_contract_dir, m.path)
    IN  IF c \in DOMAIN changed
        THEN Imp(" ", m.items, "\"", "./" \o changed[c][2], "\"")
        ELSE Imp(" ", m.items, "\"", m.path, "\"")

\* regex.replace_all over the content
update_content(changed, content, current_contract_dir) ==
    [k \in 1..Len(content) |->
        IF content[k].kind = "import"
        THEN rewrite_import(changed, current_contract_dir, content[k])
        ELSE content[k]]

\* -------------------------------------------------------------- the ? operator
\* Try with the error dropped
Try_unchecked(res, next) == next

\* the position after a step: the call returns on an error
Try(res, next) == IF res = "Err" THEN "Err" ELSE next


\* the main contract path the caller passes (line 36): one of the source
\* paths, so that a bundle may or may not hold the main contract
MainPaths == { MkPath("/p", "A", "sol") }

\* no call is running: there is no main contract path argument and no
\* new_content local
NoPath == MkPath("", None, "")
NoContent == << >>

\* no call before, or one that returned an error
NoCallBefore == [ok |-> FALSE, bundle |-> << >>, names |-> << >>]

\* --------------------------------------------------------------- LocalRemapper::new
Init ==
    /\ contract_name_count = EmptyMap
    /\ contract_content_map = EmptyMap
    /\ changed_filenames = EmptyMap
    /\ dirs = {}
    /\ fs = EmptyMap
    /\ standard_json = << >>
    /\ main_contract_path = NoPath
    /\ before = NoCallBefore
    /\ calls = 0
    /\ submitted = 0
    /\ pc = "idle"
    /\ i = 0
    /\ new_contract_name = None
    /\ new_path = None
    /\ new_content = NoContent
    /\ failed = FALSE
    /\ log = << >>
    /\ writes = << >>

\* ----------------------------------------------------- apply_local_remapping
Returned == pc \in {"idle", "Ok", "Err"}

\* entry of the call: the loop starts at the first source, or ends at once
Enter(b, main, history) ==
    /\ standard_json' = b
    /\ main_contract_path' = main
    /\ before' = history
    /\ calls' = calls + 1
    /\ i' = 1
    /\ pc' = IF Len(b) = 0 THEN "Ok" ELSE "check"
    /\ new_contract_name' = None
    /\ new_path' = None
    /\ new_content' = NoContent
    /\ failed' = FALSE
    /\ log' = << >>
    /\ writes' = << >>
    /\ UNCHANGED << remapper, disk >>

\* a call with a bundle of sources
Call ==
    /\ pc = "idle"
    /\ calls < MaxCalls
    /\ \E b \in Bundles(MaxSources - submitted), main \in MainPaths :
          /\ submitted' = submitted + Len(b)
          /\ Enter(b, main, NoCallBefore)

\* a further call with the bundle of the call before, which returned Ok
CallAgain ==
    /\ pc = "Ok"
    /\ calls < MaxCalls
    /\ UNCHANGED submitted
    /\ \E main \in MainPaths :
          Enter(standard_json, main,
                [ok |-> TRUE, bundle |-> standard_json,
                 names |-> [j \in 1..Len(log) |-> log[j].name]])

\* the call has returned: its arguments and locals are gone, the
\* LocalRemapper and the files stay
Return ==
    /\ pc \in {"Ok", "Err"}
    /\ pc' = "idle"
    /\ standard_json' = << >>
    /\ main_contract_path' = NoPath
    /\ before' = NoCallBefore
    /\ i' = 0
    /\ new_contract_name' = None
    /\ new_path' = None
    /\ new_content' = NoContent
    /\ failed' = FALSE
    /\ log' = << >>
    /\ writes' = << >>
    /\ UNCHANGED << remapper, disk, calls, submitted >>

\* lines 41-48: the name of the current source
CheckAndRename ==
    /\ pc = "check"
    /\ LET s == standard_json[i]
           is_main_contract == (s.path = main_contract_path)
           r == check_and_rename_contract(contract_name_count,
                    contract_content_map, s.path, s.content,
                    is_main_contract)
       IN  /\ pc' = Try(r.res, "path")
           /\ failed' = (r.res = "Err")
           /\ contract_name_count' = r.count
           /\ contract_content_map' = r.cmap
           /\ changed_filenames' = changed_after(changed_filenames, s.path, r)
           /\ new_contract_name' = r.name
           /\ log' = IF r.res = "Err" THEN log
                     ELSE Append(log,
                            [path |-> s.path, content |-> s.content,
                             branch |-> name_case(contract_content_map,
                                            file_stem(s.path), s.content),
                             name |-> r.name, renamed |-> r.renamed # None])
    /\ UNCHANGED << disk, standard_json,
                    main_contract_path, before, calls, submitted,
                    i, new_path, new_content, writes >>

\* line 51: the output path; the output directory is created when missing,
\* and create_dir_all succeeds or fails
GetNewPath ==
    /\ pc = "path"
    /\ LET s == standard_json[i]
           new_dir == new_dir_of(s.path)
       IN  \E res \in create_outcomes(new_dir, dirs) :
              /\ pc' = Try(res, "update")
              /\ failed' = (res = "Err")
              /\ dirs' = IF res = "Ok" THEN dirs \cup {new_dir} ELSE dirs
              /\ new_path' = IF res = "Ok"
                             THEN new_file_path(s.path, new_contract_name)
                             ELSE None
    /\ UNCHANGED << remapper, fs, standard_json, main_contract_path,
                    before, calls, submitted, i,
                    new_contract_name, new_content, log, writes >>

\* lines 54-60: the imports of the current source rewritten
UpdateContent ==
    /\ pc = "update"
    /\ LET s == standard_json[i]
       IN  new_content' = update_content(changed_filenames, s.content,
                                         parent(s.path))
    /\ pc' = "write"
    /\ UNCHANGED << remapper, disk, standard_json, main_contract_path, before,
                    calls, submitted, i,
                    new_contract_name, new_path, failed, log, writes >>

\* AfterEntry with the loop left one entry early
AfterEntry_skipping_last(k) ==
    IF k + 1 < Len(standard_json) THEN "check" ELSE "Ok"

\* the position after the body of the loop ran for entry k
AfterEntry(k) == IF k < Len(standard_json) THEN "check" ELSE "Ok"

\* line 63: write_contract; File::create fails, or write_all fails after the
\* file was created and truncated, or both succeed
WriteContract ==
    /\ pc = "write"
    /\ \E outcome \in {"written", "create failed", "write failed"} :
          LET bytes == IF outcome = "written" THEN new_content ELSE Partial
              res == IF outcome = "written" THEN "Ok" ELSE "Err"
          IN  /\ fs' = IF outcome = "create failed" THEN fs
                       ELSE Put(fs, new_path, bytes)
              /\ writes' = IF outcome = "create failed" THEN writes
                           ELSE Append(writes, [entry |-> i, path |-> new_path,
                                                bytes |-> bytes])
              /\ failed' = (res = "Err")
              /\ pc' = Try(res, AfterEntry(i))
              /\ i' = IF Try(res, AfterEntry(i)) = "check" THEN i + 1 ELSE i
    /\ UNCHANGED << remapper, dirs, standard_json, main_contract_path,
                    before, calls, submitted,
                    new_contract_name, new_path, new_content, log >>

Next ==
    \/ Call
    \/ CallAgain
    \/ Return
    \/ CheckAndRename
    \/ GetNewPath
    \/ UpdateContent
    \/ WriteContract

Spec == Init /\ [][Next]_vars

\* the body of apply_local_remapping is straight-line code on one thread,
\* without await, lock or cancellation: a step that can run does run.
\* Whether and when the caller calls again is left open
FairSpec ==
    /\ Spec
    /\ WF_vars(CheckAndRename)
    /\ WF_vars(GetNewPath)
    /\ WF_vars(UpdateContent)
    /\ WF_vars(WriteContract)


\* ================================================================ claims
\* the source of this call that entry k of the loop is about
SourceOf(k) == standard_json[k]

\* the writes of this call that wrote all their bytes
Complete == { w \in 1..Len(writes) : writes[w].bytes # Partial }

\* the base name of the source of a record of the log
BaseOf(j) == log[j].path.stem

\* ---------------------------------------------------------------- C1
\* C1: no two distinct sources of one call whose contents differ are written
\* to the same output path (stated for the first call on a new LocalRemapper,
\* where no name was seen before the call).
C1_UniqueOutputPath ==
    calls = 1 =>
    \A a, b \in 1..Len(writes) :
        /\ SourceOf(writes[a].entry).path # SourceOf(writes[b].entry).path
        /\ SourceOf(writes[a].entry).content # SourceOf(writes[b].entry).content
        => writes[a].path # writes[b].path

CollisionsUpTo(j) ==
    Cardinality({ m \in 1..j : BaseOf(m) = BaseOf(j) /\ log[m].branch = "differs" })

\* C3: within one call, the k-th source of a base name whose content differs
\* from the stored content is named <base>_k.
C3_KthCollisionName ==
    \A j \in 1..Len(log) :
        log[j].branch = "differs"
        => log[j].name = BaseOf(j) \o "_" \o ToString(CollisionsUpTo(j))

\* ---------------------------------------------------------------- C4
\* C4: a source whose base name no earlier source of the call had is not
\* renamed: it keeps its base name, and its content is the stored one.
C4_FirstInCallKeepsName ==
    \A j \in 1..Len(log) :
        (\A m \in 1..(j - 1) : BaseOf(m) # BaseOf(j))
        => /\ log[j].name = BaseOf(j)
           /\ ~log[j].renamed
           /\ contract_content_map[BaseOf(j)] = log[j].content

\* ---------------------------------------------------------------- C5
\* C5: an import of a written file whose canonical target is a source that
\* was renamed earlier in the call references "./<new filename>", the
\* named-import clause kept.
C5_RenamedTargetRewritten ==
    \A w \in Complete :
        LET src == SourceOf(writes[w].entry)
        IN  \A k \in 1..Len(src.content) :
              \A t \in 1..Len(log) :
                ( /\ src.content[k].kind = "import"
                  /\ t < writes[w].entry
                  /\ log[t].renamed
                  /\ log[t].path = canonical_import_path(parent(src.path),
                                                         src.content[k].path) )
                => /\ writes[w].bytes[k].path = "./" \o log[t].name \o ".sol"
                   /\ writes[w].bytes[k].items = src.content[k].items

\* ---------------------------------------------------------------- C6
\* C6: an import whose target is not in the rename map is written
\* byte-identical: same quotes, same spacing.
C6_UnrenamedImportIdentical ==
    \A w \in Complete :
        LET src == SourceOf(writes[w].entry)
        IN  \A k \in 1..Len(src.content) :
              ( /\ src.content[k].kind = "import"
                /\ canonical_import_path(parent(src.path), src.content[k].path)
                      \notin DOMAIN changed_filenames )
              => writes[w].bytes[k] = src.content[k]

\* ---------------------------------------------------------------- C7
\* C7: when no two sources of the bundle share a base name, every file
\* written holds the content of its source.
C7_NoCollisionContentKept ==
    (\A j, k \in 1..Len(standard_json) :
        j # k => standard_json[j].path.stem # standard_json[k].path.stem)
    => \A w \in Complete : writes[w].bytes = SourceOf(writes[w].entry).content


\* ---------------------------------------------------------------- C8
\* C8: once a step of a call has failed, the call has returned the error,
\* and until the next call no name is assigned and nothing is written: the
\* maps, the disk and the histories of the call stay as they are.
C8_ErrorStopsCall ==
    /\ [](failed => pc = "Err")
    /\ [][(failed /\ calls' = calls)
            => (pc' = "idle" /\ UNCHANGED << remapper, disk >>)]_vars

\* a step failed on an entry that is neither the first nor the last
C8_Witness ==
    /\ failed
    /\ pc = "Err"
    /\ 1 < i
    /\ i < Len(standard_json)

\* ---------------------------------------------------------------- C9
\* C9: when a call has failed on entry i, every file written for an entry
\* before i is on disk with the bytes written for that entry (stated for
\* the first call on a new LocalRemapper).
C9_EarlierFilesKept ==
    (calls = 1 /\ pc = "Err") =>
    \A w \in 1..Len(writes) :
        writes[w].entry < i
        => /\ writes[w].path \in DOMAIN fs
           /\ fs[writes[w].path] = writes[w].bytes

\* ---------------------------------------------------------------- C10
\* the writes of this call for entry j
WritesOf(j) == { w \in 1..Len(writes) : writes[w].entry = j }

\* C10 as stated: after a call that returned Ok, every source has exactly
\* one write, at <parent of the source>/<temp directory>/<final name>.<ext>,
\* <ext> the extension of the source path.
C10_OneWriteSourceExtension ==
    pc = "Ok" =>
    \A j \in 1..Len(standard_json) :
        /\ Cardinality(WritesOf(j)) = 1
        /\ \A w \in WritesOf(j) :
              writes[w].path =
                  standard_json[j].path.dir \o "/" \o TempDirectory \o "/"
                      \o log[j].name \o "." \o standard_json[j].path.ext

\* C10 as amended: after a call that returned Ok, every source has exactly
\* one write, all bytes written, at
\* <parent of the source>/<temp directory>/<final name>.sol, whatever the
\* extension of the source path; the final name is the one
\* check_and_rename_contract gave.
C10_OneWriteSolExtension ==
    pc = "Ok" =>
    /\ Len(log) = Len(standard_json)
    /\ \A j \in 1..Len(standard_json) :
        /\ log[j].path = standard_json[j].path
        /\ Cardinality(WritesOf(j)) = 1
        /\ \A w \in WritesOf(j) :
              /\ writes[w].bytes # Partial
              /\ writes[w].path \in DOMAIN fs
              /\ writes[w].path =
                  standard_json[j].path.dir \o "/" \o TempDirectory \o "/"
                      \o log[j].name \o ".sol"

\* a call returned Ok for a bundle with a renamed source and a source whose
\* extension is not sol
C10_Witness ==
    /\ pc = "Ok"
    /\ \E j \in 1..Len(log) : log[j].renamed
    /\ \E j \in 1..Len(standard_json) : standard_json[j].path.ext = "vy"
    /\ Len(writes) = Len(standard_json)


\* ---------------------------------------------------------------- C11
\* the directory of a write of this call
DirOfWrite(w) == new_dir_of(SourceOf(writes[w].entry).path)

\* C11: all files written by one call are in one directory, wherever the
\* sources are (stated for the first call on a new LocalRemapper).
C11_OneOutputDirectory ==
    calls = 1 =>
    \A a, b \in 1..Len(writes) :
        /\ writes[a].path = join(DirOfWrite(a), log[writes[a].entry].name \o ".sol")
        /\ DirOfWrite(a) = DirOfWrite(b)

\* C12: a call on the bundle of the call before, which returned Ok, gives
\* every source the name that call gave it.
C12_SameNamesOnReplay ==
    (before.ok /\ before.bundle = standard_json) =>
    \A j \in 1..Len(log) : log[j].name = before.names[j]

C14_ExistingDirectoryKept ==
    [][(pc = "path" /\ new_dir_of(standard_json[i].path) \in dirs) =>
          (pc' = "update" /\ ~failed' /\ dirs' = dirs /\ fs' = fs)]_vars

\* get_new_path returned for a later entry of a second call, whose output
\* directory the first call created
C14_Witness ==
    /\ pc = "update"
    /\ calls = 2
    /\ i > 1
    /\ new_dir_of(standard_json[i].path) = new_dir_of(standard_json[1].path)
    /\ \E f \in DOMAIN fs : f \notin { writes[w].path : w \in 1..Len(writes) }

\* C15: when no contract name can be taken from the path of the current
\* source, the call fails at that entry, and the entry changes neither the
\* counters, the stored contents, the rename map nor the files.
C15_NoStemFails ==
    [][(pc = "check" /\ standard_json[i].path.stem = None) =>
          /\ pc' = "Err"
          /\ failed'
          /\ UNCHANGED << remapper, disk, log, writes >>]_vars

\* the call failed at a later entry whose path has no file stem
C15_Witness ==
    /\ pc = "Err"
    /\ failed
    /\ i > 1
    /\ standard_json[i].path.stem = None
    /\ Len(log) = i - 1
    /\ Len(writes) = i - 1

\* C16: when the current source was renamed, the rename map holds, before
\* the imports of that entry are rewritten, the original path of the source
\* with the output path and the output file name (stated for the first
\* call on a new LocalRemapper).
C16_RenameRecorded ==
    (calls = 1 /\ pc = "update" /\ log[i].renamed) =>
        /\ standard_json[i].path \in DOMAIN changed_filenames
        /\ changed_filenames[standard_json[i].path]
              = << new_path, format_filename(log[i].name) >>

\* C17: the rename map holds entries for renamed sources only: no source
\* that this call named with its base name is a key of the map, and a step
\* adds a key only for the source it has just renamed.
C17_OnlyRenamedRecorded ==
    /\ [](\A j \in 1..Len(log) :
             ~log[j].renamed => log[j].path \notin DOMAIN changed_filenames)
    /\ [][\A k \in DOMAIN changed_filenames' :
             k \notin DOMAIN changed_filenames =>
                /\ pc = "check"
                /\ k = standard_json[i].path
                /\ Len(log') = i
                /\ log'[i].renamed]_vars

\* a source was written under its base name after another was renamed
C17_Witness ==
    /\ pc = "Ok"
    /\ \E j, k \in 1..Len(log) :
          /\ j < k
          /\ log[j].renamed
          /\ ~log[k].renamed
          /\ \E w \in Complete : writes[w].entry = k
          /\ log[k].path \notin DOMAIN changed_filenames

\* the base names that have a counter or a stored content in one of two
\* states of the maps
NamesIn(count1, cmap1, count2, cmap2) ==
    DOMAIN count1 \cup DOMAIN cmap1 \cup DOMAIN count2 \cup DOMAIN cmap2

\* the entry of name n is the same in the maps m1 and m2
SameEntry(m1, m2, n) ==
    /\ (n \in DOMAIN m1) = (n \in DOMAIN m2)
    /\ n \in DOMAIN m1 => m1[n] = m2[n]

\* C18: naming a source of base name X changes neither the counter nor the
\* stored content of any other base name.
C18_OtherNamesUntouched ==
    [][pc = "check" =>
         \A Y \in NamesIn(contract_name_count, contract_content_map,
                          contract_name_count', contract_content_map')
                  \ {standard_json[i].path.stem} :
            /\ SameEntry(contract_name_count, contract_name_count', Y)
            /\ SameEntry(contract_content_map, contract_content_map', Y)]_vars

\* a source was renamed while another base name had a stored content
C18_Witness ==
    /\ pc = "path"
    /\ log[i].renamed
    /\ contract_name_count[BaseOf(i)] >= 1
    /\ \E Y \in DOMAIN contract_content_map : Y # BaseOf(i)

\* the call is inside the loop of apply_local_remapping
Running == pc \in {"check", "path", "update", "write"}

\* the entries named so far are the first entries of the bundle, in order,
\* and the files opened so far belong to them, one each, in order
InBundleOrder ==
    /\ \A j \in 1..Len(log) : log[j].path = standard_json[j].path
    /\ \A w \in 1..Len(writes) : writes[w].entry = w
    /\ pc \in {"path", "update", "write"} =>
          (Len(log) = i /\ Len(writes) = i - 1)
    /\ pc = "check" => (Len(log) = i - 1 /\ Len(writes) = i - 1)

\* C19: a call over a bundle ends: the entries are taken in bundle order,
\* each at most once, and the call comes to Ok with every entry written or
\* to the first error.
C19_CallTerminates ==
    /\ [](Running => InBundleOrder)
    /\ [](pc = "Ok" =>
            /\ Len(log) = Len(standard_json)
            /\ Len(writes) = Len(standard_json)
            /\ InBundleOrder
            /\ Complete = 1..Len(writes))
    /\ [](pc = "Err" => (failed /\ InBundleOrder))
    /\ [][(Running /\ Running') => i' \in {i, i + 1}]_vars
    /\ Running ~> (pc \in {"Ok", "Err"})

\* a call over a bundle of several sources has ended with Ok
C19_Witness ==
    /\ pc = "Ok"
    /\ Len(standard_json) = MaxSources
    /\ Len(writes) = MaxSources

\* C20: the content stored for a base name is never replaced or removed,
\* so a source is compared with the first content seen under its base name:
\* one that differs from it is renamed, also when it equals a source that
\* was renamed before.
C20_StoredContentWriteOnce ==
    /\ [][\A n \in DOMAIN contract_content_map :
             /\ n \in DOMAIN contract_content_map'
             /\ contract_content_map'[n] = contract_content_map[n]]_vars
    /\ [](\A k \in 1..Len(log) :
             /\ BaseOf(k) \in DOMAIN contract_content_map
             /\ log[k].renamed
                  = (log[k].content # contract_content_map[BaseOf(k)]))

\* two sources of one base name with the same content, different from the
\* stored one, were both renamed
C20_Witness ==
    \E j, k \in 1..Len(log) :
        /\ j < k
        /\ BaseOf(j) = BaseOf(k)
        /\ log[j].content = log[k].content
        /\ log[j].content # contract_content_map[BaseOf(j)]
        /\ log[j].renamed
        /\ log[k].renamed
        /\ log[j].name # log[k].name

====
